---- MODULE Spec2Model ----
(***************************************************************************)
(* Substitution funnel of the product substituter: the filter-set engine   *)
(* of Cluster, the rank normalisation, the weighted sampler and the        *)
(* per-offer procedure Substituter.assignTPO, driven as substitute() does. *)
(*                                                                         *)
(* Numbers are exact rationals <<n, d>> (d = 0 stands for +infinity), so   *)
(* that the cut-off comparisons of the code are decided exactly.           *)
(***************************************************************************)
EXTENDS Integers, Sequences, FiniteSets, TLC

\* ------------------------------------------------------------------ bounds
MaxProducts == 3
NumTPOs == 2
MaxSample == 2
MaxKeys == 2
MaxItems == 2

\* --------------------------------------------------------------- constants
currentPeriodID == 9
NoProduct == -1

ProductIDs == 1..MaxProducts
TPOs == 1..NumTPOs
OutletIDs == {1, 2}

\* ------------------------------------------------------ rational arithmetic
\* None, as a number, as a set name and as a cut-off
NoneInt == -1
NoneName == "None"
None == <<>>
Missing == <<"KeyError">>
Zero == <<0, 1>>
One == <<1, 1>>
Inf == <<1, 0>>

Leq(a, b) == a[1] * b[2] <= b[1] * a[2]
Lt(a, b) == a[1] * b[2] < b[1] * a[2]
FEq(a, b) == a[1] * b[2] = b[1] * a[2]
FAdd(a, b) ==
    IF a[2] = 0 \/ b[2] = 0 THEN Inf ELSE <<a[1] * b[2] + b[1] * a[2], a[2] * b[2]>>

\* nan, the value of inf - inf and of inf / inf
NaN == <<0, 0>>
Two == <<2, 1>>

\* a - b for b <= a, and a / b for b # 0, as floats compute them
FSub(a, b) ==
    IF a = NaN \/ b = NaN THEN NaN
    ELSE IF a[2] = 0 /\ b[2] = 0 THEN NaN
    ELSE IF a[2] = 0 THEN Inf
    ELSE <<a[1] * b[2] - b[1] * a[2], a[2] * b[2]>>

FDiv(a, b) ==
    IF a = NaN \/ b = NaN THEN NaN
    ELSE IF b[2] = 0 THEN (IF a[2] = 0 THEN NaN ELSE Zero)
    ELSE IF a[2] = 0 THEN Inf
    ELSE <<a[1] * b[2], a[2] * b[1]>>

\* sum(values) over the keys ids
RECURSIVE SumOver(_, _)
SumOver(probabilities, ids) ==
    IF ids = {} THEN Zero
    ELSE LET i == CHOOSE q \in ids : TRUE
         IN FAdd(probabilities[i], SumOver(probabilities, ids \ {i}))

Put(f, k, v) == [x \in (DOMAIN f) \cup {k} |-> IF x = k THEN v ELSE f[x]]
EmptyMap == [x \in {} |-> {}]

\* ------------------------------------------------------------------- state
VARIABLES
    products,     \* cluster.products: product id -> Product (current-period record)
    filterSets,   \* cluster.filterSets: set name -> set of product ids
    tpoMap,       \* Substituter.tpoMap: offer id -> TargetProductOffer
    params,       \* the arguments substitute() hands to every assignTPO call
    pending,      \* the offers of cluster.tpoIDs the loop of substitute() has yet to visit
    ret,          \* the last assignTPO call: offer, returned tag, escaped error
    sam,          \* the sampler on its own: its arguments and its result
    call,         \* a method of Cluster or Geography called on its own: its name,
                  \* its arguments, the error it raised and what it returned
    geography     \* Geography.properties of the object equals is called on

vars == <<products, filterSets, tpoMap, params, pending, ret, sam, call, geography>>

\* ------------------------------------------------ Product and its variables
\* product.variables[key]; a missing key raises KeyError
Var(product, key) ==
    IF key \in DOMAIN product.variables THEN product.variables[key] ELSE Missing

\* product.variables[key] = value[p], for every product p of ids in cluster c
SetVars(c, ids, key, value) ==
    [c EXCEPT !.products =
        [p \in DOMAIN @ |->
            IF p \in ids THEN [@[p] EXCEPT !.variables = Put(@, key, value[p])] ELSE @[p]]]

\* The lambdas the code hands to the cluster and to the sampler are data here:
\* [op |-> "variable", key |-> k]       lambda product: product.variables[k]
\* [op |-> "sales", periodID |-> i]     lambda product: product.properties[i].sales
\* [op |-> "outlet", ...]               lambda product: outletID in product.properties[i].outletIDs
\* [op |-> "UOM", UOM |-> u]            lambda product: u == product.UOM
\* [op |-> "atMost", key, bound]        lambda product: product.variables[key] <= bound
\* [op |-> "atLeast", key, bound]       lambda product: product.variables[key] >= bound
\* [op |-> "less", key |-> k]           lambda refProd, prod: refProd.variables[k] < prod.variables[k]
\* Raises: the call of the lambda on the product raises KeyError
Raises(f, product) ==
    /\ f.op \in {"variable", "atMost", "atLeast"}
    /\ f.key \notin DOMAIN product.variables

\* The value the lambda returns for the product (Missing when it raises)
Call(f, product) ==
    IF f.op = "variable" THEN Var(product, f.key)
    ELSE IF f.op = "sales" THEN <<product.properties[f.periodID].sales, 1>>
    ELSE IF f.op = "outlet" THEN f.outletID \in product.properties[f.periodID].outletIDs
    ELSE IF f.op = "UOM" THEN f.UOM = product.UOM
    ELSE IF f.op = "atMost" THEN Leq(product.variables[f.key], f.bound)
    ELSE Leq(f.bound, product.variables[f.key])

\* The two-place lambda with its comparison turned around
CompareFlipped(f, refProd, prod) == Lt(prod.variables[f.key], refProd.variables[f.key])

\* The value the two-place lambda returns
Compare(f, refProd, prod) == Lt(refProd.variables[f.key], prod.variables[f.key])

\* ------------------------------------------------------------------ Cluster
\* A cluster value c carries the two dicts of Cluster, the exception that is
\* propagating (err) and whether a pdb breakpoint was hit (trace).
Raise(c, e) == [c EXCEPT !.err = e]

addFilterSet(c, name) ==
    IF c.err # "none" THEN c
    ELSE [c EXCEPT !.filterSets = Put(@, name, DOMAIN c.products)]

copyFilterSet(c, sourceSetName, copySetName) ==
    IF c.err # "none" THEN c
    ELSE IF sourceSetName \notin DOMAIN c.filterSets THEN Raise(c, "KeyError")
    ELSE [c EXCEPT !.filterSets = Put(@, copySetName, c.filterSets[sourceSetName])]

\* applyFilterMask whose 'drop' mode keeps the listed products instead
applyFilterMaskDropKeeps(c, setName, productIDSet, filterMode) ==
    IF c.err # "none" THEN c
    ELSE IF filterMode = "drop" THEN
        IF setName \notin DOMAIN c.filterSets THEN Raise(c, "KeyError")
        ELSE [c EXCEPT !.filterSets[setName] = @ \cap productIDSet]
    ELSE IF filterMode = "keep" THEN
        [c EXCEPT !.filterSets = Put(@, setName, productIDSet)]
    ELSE c

\* applyFilterMask whose 'keep' keeps the members of the set that are in the
\* given set, instead of storing the given set
applyFilterMaskKeepIntersects(c, setName, productIDSet, filterMode) ==
    IF c.err # "none" THEN c
    ELSE IF filterMode = "drop" THEN
        IF setName \notin DOMAIN c.filterSets THEN Raise(c, "KeyError")
        ELSE [c EXCEPT !.filterSets[setName] = @ \ productIDSet]
    ELSE IF filterMode = "keep" THEN
        IF setName \notin DOMAIN c.filterSets THEN Raise(c, "KeyError")
        ELSE [c EXCEPT !.filterSets[setName] = @ \cap productIDSet]
    ELSE c

applyFilterMask(c, setName, productIDSet, filterMode) ==
    IF c.err # "none" THEN c
    ELSE IF filterMode = "drop" THEN
        IF setName \notin DOMAIN c.filterSets THEN Raise(c, "KeyError")
        ELSE [c EXCEPT !.filterSets[setName] = @ \ productIDSet]
    ELSE IF filterMode = "keep" THEN
        [c EXCEPT !.filterSets = Put(@, setName, productIDSet)]
    ELSE c

applyFilterFunction(c, setName, filterer) ==
    IF c.err # "none" THEN c
    ELSE IF setName \notin DOMAIN c.filterSets THEN Raise(c, "KeyError")
    ELSE IF \E productID \in c.filterSets[setName] : productID \notin DOMAIN c.products
         THEN Raise(c, "KeyError")
    ELSE IF \E productID \in c.filterSets[setName] : Raises(filterer, c.products[productID])
         THEN Raise(c, "KeyError")
    ELSE LET keepProductIDs ==
                 {productID \in c.filterSets[setName] :
                     Call(filterer, c.products[productID]) = TRUE}
         IN applyFilterMask(c, setName, keepProductIDs, "keep")

\* The filterer that forgets the lower bound when both bounds are given
CutoffKeepsUpperOnly(value, lowerCutoff, upperCutoff) ==
    IF lowerCutoff = None /\ upperCutoff = None THEN TRUE
    ELSE IF value = Missing THEN FALSE
    ELSE IF upperCutoff # None THEN Leq(value, upperCutoff)
    ELSE Leq(lowerCutoff, value)

\* The filterer built from the two bounds; a retriever that raises makes the
\* filterer raise, and the loop drops that product.
CutoffKeeps(value, lowerCutoff, upperCutoff) ==
    IF lowerCutoff = None /\ upperCutoff = None THEN TRUE
    ELSE IF value = Missing THEN FALSE
    ELSE IF lowerCutoff # None /\ upperCutoff # None
         THEN Leq(lowerCutoff, value) /\ Leq(value, upperCutoff)
    ELSE IF lowerCutoff # None THEN Leq(lowerCutoff, value)
    ELSE Leq(value, upperCutoff)

\* applyCutoffFilter without the handler around the filterer: the KeyError of
\* a product without the score, or of an id without a product, propagates
applyCutoffFilterPropagates(c, setName, retriever, lowerCutoff, upperCutoff) ==
    IF c.err # "none" THEN c
    ELSE IF lowerCutoff # None /\ upperCutoff # None /\ Lt(upperCutoff, lowerCutoff)
         THEN Raise(c, "ValueError")
    ELSE IF setName \notin DOMAIN c.filterSets THEN Raise(c, "KeyError")
    ELSE IF \E productID \in c.filterSets[setName] :
                \/ productID \notin DOMAIN c.products
                \/ /\ ~(lowerCutoff = None /\ upperCutoff = None)
                   /\ Raises(retriever, c.products[productID])
         THEN Raise(c, "KeyError")
    ELSE LET keepProductIDs ==
                 {productID \in c.filterSets[setName] :
                     CutoffKeeps(Call(retriever, c.products[productID]),
                                 lowerCutoff, upperCutoff)}
         IN applyFilterMask(c, setName, keepProductIDs, "keep")

\* applyCutoffFilter without the check of the two bounds
applyCutoffFilterUnchecked(c, setName, retriever, lowerCutoff, upperCutoff) ==
    IF c.err # "none" THEN c
    ELSE IF setName \notin DOMAIN c.filterSets THEN Raise(c, "KeyError")
    ELSE LET keepProductIDs ==
                 {productID \in c.filterSets[setName] :
                     /\ productID \in DOMAIN c.products
                     /\ CutoffKeeps(Call(retriever, c.products[productID]),
                                    lowerCutoff, upperCutoff)}
         IN applyFilterMask(c, setName, keepProductIDs, "keep")

applyCutoffFilter(c, setName, retriever, lowerCutoff, upperCutoff) ==
    IF c.err # "none" THEN c
    ELSE IF lowerCutoff # None /\ upperCutoff # None /\ Lt(upperCutoff, lowerCutoff)
         THEN Raise(c, "ValueError")
    ELSE IF setName \notin DOMAIN c.filterSets THEN Raise(c, "KeyError")
    ELSE LET keepProductIDs ==
                 {productID \in c.filterSets[setName] :
                     /\ productID \in DOMAIN c.products
                     /\ CutoffKeeps(Call(retriever, c.products[productID]),
                                    lowerCutoff, upperCutoff)}
         IN applyFilterMask(c, setName, keepProductIDs, "keep")

\* rankdata giving tied values the lowest of their ranks
Rank2Min(vals, ids, v) == 2 * Cardinality({j \in ids : Lt(vals[j], v)}) + 2

\* scipy.stats.rankdata (average method): twice the rank of the value v among
\* the values vals[i], i \in ids
Rank2(vals, ids, v) ==
    2 * Cardinality({j \in ids : Lt(vals[j], v)})
        + Cardinality({j \in ids : FEq(vals[j], v)}) + 1

\* The normalised value of the rank r2 / 2 among count values
RankValue(r2, count, invert) ==
    IF invert THEN <<2 * count - r2 + 2, 2 * count>> ELSE <<r2, 2 * count>>

\* min(values) and max(values) of a list that is not empty
MinOf(values, ids) ==
    CHOOSE v \in {values[p] : p \in ids} : \A p \in ids : Leq(v, values[p])

MaxOf(values, ids) ==
    CHOOSE v \in {values[p] : p \in ids} : \A p \in ids : Leq(values[p], v)

\* A divisor on which float division raises ZeroDivisionError
IsZero(a) == a[1] = 0 /\ a[2] # 0

\* The value the 'magnitude' mode stores
MagnitudeValue(value, minValue, maxValue, invert) ==
    LET x == FDiv(FSub(value, minValue), FSub(maxValue, minValue))
    IN IF invert THEN FSub(One, x) ELSE x

\* The value the 'weight' mode stores
WeightValue(value, summedValue, invert) ==
    LET x == FDiv(value, summedValue)
    IN IF invert THEN FSub(One, x) ELSE x

\* The values the normalisation mode stores over the zeroed products, or the
\* error it raises
NormalizedValues(zeroed, productIDs, values, varKey, normMode, invert) ==
    LET count == Cardinality(productIDs)
    IN IF normMode = "rank"
       THEN SetVars(zeroed, productIDs, varKey,
                [p \in productIDs |->
                    RankValue(Rank2(values, productIDs, values[p]), count, invert)])
       ELSE IF normMode = "magnitude"
       THEN IF count = 0 THEN Raise(zeroed, "ValueError")
            ELSE LET minValue == MinOf(values, productIDs)
                     maxValue == MaxOf(values, productIDs)
                 IN IF IsZero(FSub(maxValue, minValue))
                    THEN Raise(zeroed, "ZeroDivisionError")
                    ELSE SetVars(zeroed, productIDs, varKey,
                             [p \in productIDs |->
                                 MagnitudeValue(values[p], minValue, maxValue, invert)])
       ELSE IF normMode = "weight"
       THEN LET summedValue == SumOver(values, productIDs)
            IN IF count > 0 /\ IsZero(summedValue)
               THEN Raise(zeroed, "ZeroDivisionError")
               ELSE SetVars(zeroed, productIDs, varKey,
                        [p \in productIDs |-> WeightValue(values[p], summedValue, invert)])
       ELSE zeroed

\* addNormalizedVariable whose handler of KeyError does nothing: the products
\* the loop reached (here in the order of their ids) are left at 0, the others
\* as they were
addNormalizedVariableNoReset(c, varKey, retriever, setName, normMode, invert) ==
    IF c.err # "none" THEN c
    ELSE IF setName # NoneName /\ setName \notin DOMAIN c.filterSets THEN Raise(c, "KeyError")
    ELSE LET productIDs == IF setName = NoneName THEN DOMAIN c.products
                           ELSE c.filterSets[setName]
         IN IF \E p \in productIDs : p \notin DOMAIN c.products
            THEN Raise(c, "KeyError")
            ELSE LET zeroed == SetVars(c, productIDs, varKey, [p \in productIDs |-> Zero])
                     values == [p \in productIDs |-> Call(retriever, zeroed.products[p])]
                     failing == {p \in productIDs : values[p] = Missing}
                     reached == {p \in productIDs : \E q \in failing : p <= q}
                 IN IF failing # {}
                    THEN SetVars(c, reached, varKey, [p \in reached |-> Zero])
                    ELSE NormalizedValues(zeroed, productIDs, values, varKey, normMode, invert)

addNormalizedVariable(c, varKey, retriever, setName, normMode, invert) ==
    IF c.err # "none" THEN c
    ELSE IF setName # NoneName /\ setName \notin DOMAIN c.filterSets THEN Raise(c, "KeyError")
    ELSE LET productIDs == IF setName = NoneName THEN DOMAIN c.products
                           ELSE c.filterSets[setName]
         IN IF \E p \in productIDs : p \notin DOMAIN c.products
            THEN Raise(c, "KeyError")
            ELSE LET zeroed == SetVars(c, productIDs, varKey, [p \in productIDs |-> Zero])
                     values == [p \in productIDs |-> Call(retriever, zeroed.products[p])]
                 IN IF \E p \in productIDs : values[p] = Missing
                    THEN zeroed
                    ELSE NormalizedValues(zeroed, productIDs, values, varKey, normMode, invert)

\* Cluster.find: the retriever applied to the product the comparer leaves as
\* reference after one pass over the set
find(c, comparer, retriever, setName) ==
    LET productIDList == IF setName = NoneName THEN DOMAIN c.products
                         ELSE c.filterSets[setName]
        first == CHOOSE q \in productIDList : \A o \in productIDList : q <= o
        ref[S \in SUBSET productIDList] ==
            IF S = {} THEN first
            ELSE LET p == CHOOSE q \in S : \A o \in S : o <= q
                     before == ref[S \ {p}]
                 IN IF Compare(comparer, c.products[before], c.products[p]) THEN p ELSE before
    IN Call(retriever, c.products[ref[productIDList \ {first}]])

\* removeProduct: products.pop raises KeyError on a product that is not there
\* removeProduct that takes the product out of the pool and leaves the filter
\* sets as they are
removeProductKeepsMembers(c, productID) ==
    IF c.err # "none" THEN c
    ELSE IF productID \notin DOMAIN c.products THEN Raise(c, "KeyError")
    ELSE [c EXCEPT !.products = [p \in DOMAIN @ \ {productID} |-> @[p]]]

removeProduct(c, productID) ==
    IF c.err # "none" THEN c
    ELSE IF productID \notin DOMAIN c.products THEN Raise(c, "KeyError")
    ELSE [c EXCEPT !.products = [p \in DOMAIN @ \ {productID} |-> @[p]],
                   !.filterSets = [name \in DOMAIN @ |-> @[name] \ {productID}]]

\* removeFilterSet calls remove on the dict of the filter sets; a dict has no
\* such attribute, whatever the name given
removeFilterSet(c, name) ==
    IF c.err # "none" THEN c
    ELSE Raise(c, "AttributeError")

\* intersectFilterSets that stores the first set named and forgets the others
intersectFilterSetsFirstOnly(c, innerSetName, setNames) ==
    IF c.err # "none" THEN c
    ELSE IF Len(setNames) = 0 THEN Raise(c, "ValueError")
    ELSE IF \E i \in 1..Len(setNames) : setNames[i] \notin DOMAIN c.filterSets
         THEN Raise(c, "KeyError")
    ELSE [c EXCEPT !.filterSets = Put(@, innerSetName, c.filterSets[setNames[1]])]

intersectFilterSets(c, innerSetName, setNames) ==
    IF c.err # "none" THEN c
    ELSE IF Len(setNames) = 0 THEN Raise(c, "ValueError")
    ELSE IF \E i \in 1..Len(setNames) : setNames[i] \notin DOMAIN c.filterSets
         THEN Raise(c, "KeyError")
    ELSE [c EXCEPT !.filterSets =
             Put(@, innerSetName,
                 {p \in c.filterSets[setNames[1]] :
                     \A i \in 2..Len(setNames) : p \in c.filterSets[setNames[i]]})]

\* ---------------------------------------------------------------- Geography
\* Geography.equals on the vector properties of the object
equals(properties, props) ==
    IF Len(props) < Len(properties) THEN FALSE
    ELSE \A i \in 1..Len(properties) : properties[i] = props[i]

\* ------------------------------------------------------------------ sampler
\* proportionalSampling: the keys of itemSet and the probability of each;
\* population[ID] and getProbability raise KeyError on a missing key
proportionalSampling(population, itemSet, getProbability) ==
    IF \E ID \in itemSet : \/ ID \notin DOMAIN population
                           \/ Call(getProbability, population[ID]) = Missing
    THEN [err |-> "KeyError", subPopulation |-> {}, probabilities |-> None,
          consulted |-> itemSet \cap DOMAIN population]
    ELSE [err |-> "none", subPopulation |-> itemSet,
          probabilities |-> [ID \in itemSet |-> Call(getProbability, population[ID])],
          consulted |-> itemSet]

\* The draw without the uniform fallback: a key of probability 0 is never drawn
SupportPositiveOnly(subPopulation, probabilities) ==
    IF probabilities = None THEN subPopulation
    ELSE {ID \in subPopulation : Lt(Zero, probabilities[ID])}

\* The keys np.random.choice can return: every key when no probability vector
\* is given or its sum is 0 or +infinity, else the keys of positive probability
Support(subPopulation, probabilities) ==
    IF probabilities = None THEN subPopulation
    ELSE LET pSum == SumOver(probabilities, subPopulation)
         IN IF FEq(pSum, Zero) \/ pSum[2] = 0 THEN subPopulation
            ELSE {ID \in subPopulation : Lt(Zero, probabilities[ID])}

\* The cases of sample with 'top_proportional' drawing from both sets
subPopulationTopFromUnion(population, innerSet, outerSet, getProbability, samplingStrategy) ==
    IF samplingStrategy = "cutoff"
    THEN [err |-> "none", subPopulation |-> innerSet,
          probabilities |-> None, consulted |-> {}]
    ELSE IF samplingStrategy = "proportional" \/ samplingStrategy = "top_proportional"
    THEN proportionalSampling(population, innerSet \cup outerSet, getProbability)
    ELSE [err |-> "none", subPopulation |-> outerSet,
          probabilities |-> None, consulted |-> {}]

\* The four cases of sample: the subpopulation and the probability vector the
\* sampling strategy selects
subPopulation(population, innerSet, outerSet, getProbability, samplingStrategy) ==
    IF samplingStrategy = "cutoff"
    THEN [err |-> "none", subPopulation |-> innerSet,
          probabilities |-> None, consulted |-> {}]
    ELSE IF samplingStrategy = "proportional"
    THEN proportionalSampling(population, innerSet \cup outerSet, getProbability)
    ELSE IF samplingStrategy = "top_proportional"
    THEN proportionalSampling(population, innerSet, getProbability)
    ELSE [err |-> "none", subPopulation |-> outerSet,
          probabilities |-> None, consulted |-> {}]

\* sample without the check of the subpopulation: np.random.choice raises
\* ValueError on an empty list
sampleUnchecked(population, innerSet, outerSet, getProbability, samplingStrategy, sampleSize) ==
    IF DOMAIN population = {}
    THEN {[err |-> "SamplingError", keys |-> <<>>, consulted |-> {}, trace |-> TRUE]}
    ELSE LET drawn == subPopulation(population, innerSet, outerSet, getProbability,
                                    samplingStrategy)
         IN IF drawn.err # "none"
            THEN {[err |-> drawn.err, keys |-> <<>>, consulted |-> drawn.consulted,
                   trace |-> FALSE]}
            ELSE IF drawn.subPopulation = {}
            THEN {[err |-> "ValueError", keys |-> <<>>, consulted |-> drawn.consulted,
                   trace |-> FALSE]}
            ELSE {[err |-> "none", keys |-> k, consulted |-> drawn.consulted,
                   trace |-> FALSE] :
                     k \in [1..sampleSize -> Support(drawn.subPopulation, drawn.probabilities)]}

\* sample: the set of results one call can have. A result is the error raised
\* ("none" when the call returns), the returned list of keys, the keys whose
\* probability was asked for, and whether the breakpoint was hit (the run is
\* resumed from a breakpoint).
sample(population, innerSet, outerSet, getProbability, samplingStrategy, sampleSize) ==
    IF DOMAIN population = {}
    THEN {[err |-> "SamplingError", keys |-> <<>>, consulted |-> {}, trace |-> TRUE]}
    ELSE LET drawn == subPopulation(population, innerSet, outerSet, getProbability,
                                    samplingStrategy)
         IN IF drawn.err # "none"
            THEN {[err |-> drawn.err, keys |-> <<>>, consulted |-> drawn.consulted,
                   trace |-> FALSE]}
            ELSE IF drawn.subPopulation = {}
            THEN {[err |-> "SamplingError", keys |-> <<>>, consulted |-> drawn.consulted,
                   trace |-> FALSE]}
            ELSE {[err |-> "none", keys |-> k, consulted |-> drawn.consulted,
                   trace |-> FALSE] :
                     k \in [1..sampleSize -> Support(drawn.subPopulation, drawn.probabilities)]}

\* -------------------------------------------------------------- homogeneity
\* computeWordSimilarity: the fraction of the words of subSentence found in
\* sentence (a description is its set of words)
computeWordSimilarity(subSentence, sentence) ==
    <<Cardinality({i \in 1..Len(subSentence) : subSentence[i] \in sentence}),
      Len(subSentence)>>

\* The distance of the nearest-neighbour estimator between two descriptions:
\* 0 for equal texts, growing with the words they do not share
DescDistance(a, b) == Cardinality((a \ b) \cup (b \ a))

\* The sets of keys kneighbors can return: neighbourCount products none of
\* which is farther from the reference than a product left out
NearestSets(population, reference, neighbourCount) ==
    LET n == IF neighbourCount > Cardinality(DOMAIN population)
             THEN Cardinality(DOMAIN population) ELSE neighbourCount
    IN {K \in SUBSET DOMAIN population :
          /\ Cardinality(K) = n
          /\ \A x \in K, y \in (DOMAIN population) \ K :
                 DescDistance(reference, population[x].desc)
                     <= DescDistance(reference, population[y].desc)}

computeDistance(c, varKey, reference, K) ==
    IF c.err # "none" THEN c
    ELSE SetVars(c, DOMAIN c.products, varKey,
             [p \in DOMAIN c.products |->
                 IF p \in K THEN <<DescDistance(reference, c.products[p].desc), 1>>
                 ELSE Inf])

\* -------------------------------------------------- TargetProductOffer, Commodity
isAssigned(tpo, periodID) ==
    ~(tpo.properties[periodID].statusID = 0 \/ tpo.properties[periodID].statusID = 3)

\* addPeriod that keeps the record of the given period alone
addPeriodAlone(tpo, periodID, statusID, productID) ==
    [tpo EXCEPT !.properties =
        [i \in {periodID} |-> [statusID |-> statusID, productID |-> productID]]]

addPeriod(tpo, periodID, statusID, productID) ==
    [tpo EXCEPT !.properties =
        Put(@, periodID, [statusID |-> statusID, productID |-> productID])]

getAssignedProductIDs(tpoIDs, tpos, periodID, outletID) ==
    IF outletID = NoneInt
    THEN {tpos[tpoID].properties[periodID].productID :
              tpoID \in {i \in tpoIDs : isAssigned(tpos[i], periodID)}}
    ELSE {tpos[tpoID].properties[periodID].productID :
              tpoID \in {i \in tpoIDs : /\ isAssigned(tpos[i], periodID)
                                        /\ tpos[i].outletID = outletID}}

\* ---------------------------------------------------- Substituter.assignTPO
\* The product descriptions (productDescData): unit of measure and text
DescOf(p) == IF p % 3 = 1 THEN {"a", "b"} ELSE IF p % 3 = 2 THEN {"c"} ELSE {"a"}

productDescData == [p \in ProductIDs |-> [UOM |-> "g", desc |-> DescOf(p)]]

\* prevProductID left at its initial value
PrevProductIDUnset(tpo) == NoProduct

\* prevProductID of assignTPO
PrevProductID(tpo) ==
    IF currentPeriodID - 1 \in DOMAIN tpo.properties
    THEN tpo.properties[currentPeriodID - 1].productID
    ELSE NoProduct

\* step 2 without the mask of the assigned products
FilterCurrentUnmasked(c, assignedProductIDs) == addFilterSet(c, "CURRENT")

\* step 2: CURRENT, the products not yet assigned, or all of them
FilterCurrent(c, assignedProductIDs) ==
    LET c1 == addFilterSet(c, "CURRENT")
        c2 == applyFilterMask(c1, "CURRENT", assignedProductIDs, "drop")
    IN IF c2.filterSets["CURRENT"] = {} THEN addFilterSet(c2, "CURRENT") ELSE c2

\* step 3 filtering the OUTLET an earlier call left, when there is one
FilterOutletReused(c, tpo) ==
    LET c1 == IF "OUTLET" \in DOMAIN c.filterSets THEN c
              ELSE copyFilterSet(c, "CURRENT", "OUTLET")
        c2 == applyFilterFunction(c1, "OUTLET",
                  [op |-> "outlet", outletID |-> tpo.outletID, periodID |-> currentPeriodID])
    IN applyFilterFunction(c2, "OUTLET", [op |-> "UOM", UOM |-> tpo.UOM])

\* step 3 without the filter on the unit of measure
FilterOutletAnyUnit(c, tpo) ==
    LET c1 == copyFilterSet(c, "CURRENT", "OUTLET")
    IN applyFilterFunction(c1, "OUTLET",
           [op |-> "outlet", outletID |-> tpo.outletID, periodID |-> currentPeriodID])

\* step 3: OUTLET, the products of CURRENT sold at the outlet in the unit of measure
FilterOutlet(c, tpo) ==
    LET c1 == copyFilterSet(c, "CURRENT", "OUTLET")
        c2 == applyFilterFunction(c1, "OUTLET",
                  [op |-> "outlet", outletID |-> tpo.outletID, periodID |-> currentPeriodID])
    IN applyFilterFunction(c2, "OUTLET", [op |-> "UOM", UOM |-> tpo.UOM])

\* step 5 with the comparison to the cut-off turned around
FilterRelaunchFlipped(c, tpo, K, relaunchDistanceCutoff) ==
    LET refProductID == tpo.properties[currentPeriodID - 1].productID
        refFeatures == productDescData[refProductID].desc
        c1 == computeDistance(c, "distance", refFeatures, K)
        c2 == copyFilterSet(c1, "OUTLET", "RELAUNCH")
    IN applyFilterFunction(c2, "RELAUNCH",
           [op |-> "atLeast", key |-> "distance", bound |-> relaunchDistanceCutoff])

\* step 5 after the rank of the sales and the copy of OUTLET to TOP_SELLERS
FilterRelaunchAfterSales(c, tpo, K, relaunchDistanceCutoff) ==
    LET refProductID == tpo.properties[currentPeriodID - 1].productID
        refFeatures == productDescData[refProductID].desc
        c0 == copyFilterSet(
                  addNormalizedVariable(c, "Sales",
                      [op |-> "sales", periodID |-> currentPeriodID],
                      "OUTLET", "rank", FALSE),
                  "OUTLET", "TOP_SELLERS")
        c1 == computeDistance(c0, "distance", refFeatures, K)
        c2 == copyFilterSet(c1, "OUTLET", "RELAUNCH")
    IN applyFilterFunction(c2, "RELAUNCH",
           [op |-> "atMost", key |-> "distance", bound |-> relaunchDistanceCutoff])

\* step 5: the distances to the previous product and RELAUNCH
FilterRelaunch(c, tpo, K, relaunchDistanceCutoff) ==
    LET refProductID == tpo.properties[currentPeriodID - 1].productID
        refFeatures == productDescData[refProductID].desc
        c1 == computeDistance(c, "distance", refFeatures, K)
        c2 == copyFilterSet(c1, "OUTLET", "RELAUNCH")
    IN applyFilterFunction(c2, "RELAUNCH",
           [op |-> "atMost", key |-> "distance", bound |-> relaunchDistanceCutoff])

\* step 6 rolling an empty TOP_SELLERS back to CURRENT
FilterTopSellersFromCurrent(c, lowerQuantityCutoff, upperQuantityCutoff) ==
    LET c1 == addNormalizedVariable(c, "Sales",
                  [op |-> "sales", periodID |-> currentPeriodID],
                  "OUTLET", "rank", FALSE)
        c2 == copyFilterSet(c1, "OUTLET", "TOP_SELLERS")
        c3 == applyCutoffFilter(c2, "TOP_SELLERS", [op |-> "variable", key |-> "Sales"],
                  lowerQuantityCutoff, upperQuantityCutoff)
    IN IF c3.err = "none" /\ c3.filterSets["TOP_SELLERS"] = {}
       THEN copyFilterSet([c3 EXCEPT !.trace = TRUE], "CURRENT", "TOP_SELLERS")
       ELSE c3

\* step 6: the rank of the sales and TOP_SELLERS
FilterTopSellers(c, lowerQuantityCutoff, upperQuantityCutoff) ==
    LET c1 == addNormalizedVariable(c, "Sales",
                  [op |-> "sales", periodID |-> currentPeriodID],
                  "OUTLET", "rank", FALSE)
        c2 == copyFilterSet(c1, "OUTLET", "TOP_SELLERS")
        c3 == applyCutoffFilter(c2, "TOP_SELLERS", [op |-> "variable", key |-> "Sales"],
                  lowerQuantityCutoff, upperQuantityCutoff)
    IN IF c3.err = "none" /\ c3.filterSets["TOP_SELLERS"] = {}
       THEN copyFilterSet([c3 EXCEPT !.trace = TRUE], "OUTLET", "TOP_SELLERS")
       ELSE c3

\* step 7: the word similarities and SIMILAR
FilterSimilar(c, tpo) ==
    IF c.err # "none" THEN c
    ELSE LET c1 == SetVars(c, c.filterSets["TOP_SELLERS"], "similarity",
                       [productID \in c.filterSets["TOP_SELLERS"] |->
                           computeWordSimilarity(tpo.rpName, c.products[productID].desc)])
             maxSimilarity ==
                 find(c1, [op |-> "less", key |-> "similarity"],
                      [op |-> "variable", key |-> "similarity"], "TOP_SELLERS")
             c2 == copyFilterSet(c1, "TOP_SELLERS", "SIMILAR")
         IN IF ~FEq(maxSimilarity, Zero)
            THEN applyFilterFunction(c2, "SIMILAR",
                     [op |-> "atLeast", key |-> "similarity", bound |-> maxSimilarity])
            ELSE c2

\* step 8 without the rollback of an empty DISTANCE
FilterDistanceNoRollback(c, lowerDistanceCutoff, upperDistanceCutoff) ==
    LET c1 == addNormalizedVariable(c, "normDistance",
                  [op |-> "variable", key |-> "distance"], "SIMILAR", "rank", TRUE)
        c2 == copyFilterSet(c1, "SIMILAR", "DISTANCE")
    IN applyCutoffFilter(c2, "DISTANCE", [op |-> "variable", key |-> "normDistance"],
           lowerDistanceCutoff, upperDistanceCutoff)

\* step 8: the inverted rank of the distances and DISTANCE
FilterDistance(c, lowerDistanceCutoff, upperDistanceCutoff) ==
    LET c1 == addNormalizedVariable(c, "normDistance",
                  [op |-> "variable", key |-> "distance"], "SIMILAR", "rank", TRUE)
        c2 == copyFilterSet(c1, "SIMILAR", "DISTANCE")
        c3 == applyCutoffFilter(c2, "DISTANCE", [op |-> "variable", key |-> "normDistance"],
                  lowerDistanceCutoff, upperDistanceCutoff)
    IN IF c3.err = "none" /\ c3.filterSets["DISTANCE"] = {}
       THEN copyFilterSet([c3 EXCEPT !.trace = TRUE], "SIMILAR", "DISTANCE")
       ELSE c3

\* steps 6 to 8
FilterCandidates(c, tpo, newTPO, p) ==
    LET c1 == FilterSimilar(
                  FilterTopSellers(c, p.lowerQuantityCutoff, p.upperQuantityCutoff), tpo)
    IN IF newTPO THEN c1
       ELSE FilterDistance(c1, p.lowerDistanceCutoff, p.upperDistanceCutoff)

\* The call ends: the cluster is left as c, the offer t as tpo, and the call
\* returned status, or raised err
Finish(c, t, tpo, status, err) ==
    /\ products' = c.products
    /\ filterSets' = c.filterSets
    /\ tpoMap' = [tpoMap EXCEPT ![t] = tpo]
    /\ pending' = pending \ {t}
    /\ ret' = [tpo |-> t, status |-> status, err |-> err, trace |-> c.trace]
    /\ UNCHANGED <<params, sam, call, geography>>

\* step 9 recording the drawn product with the status of a relaunch
SelectProductAsContinuity(c, t, newTPO) ==
    LET tpo == tpoMap[t]
        outerSet == IF newTPO THEN "SIMILAR" ELSE "DISTANCE"
        weightVar == IF newTPO THEN "Sales" ELSE "normDistance"
    IN IF c.err # "none" THEN Finish(c, t, tpo, "NONE", c.err)
       ELSE \E s \in sample(c.products, c.filterSets[outerSet], c.filterSets["OUTLET"],
                            [op |-> "variable", key |-> weightVar],
                            params.samplingStrategy, 1) :
              LET cs == [c EXCEPT !.trace = @ \/ s.trace]
              IN IF s.err = "none"
                 THEN Finish(cs, t, addPeriod(tpo, currentPeriodID, 1, s.keys[1]),
                             "ASSIGNED", "none")
                 ELSE IF s.err = "SamplingError"
                 THEN Finish(cs, t, addPeriod(tpo, currentPeriodID, 3, PrevProductID(tpo)),
                             "UNASSIGNED", "none")
                 ELSE Finish(cs, t, tpo, "NONE", s.err)

\* step 9: the draw among the candidates and its outcome
SelectProduct(c, t, newTPO) ==
    LET tpo == tpoMap[t]
        outerSet == IF newTPO THEN "SIMILAR" ELSE "DISTANCE"
        weightVar == IF newTPO THEN "Sales" ELSE "normDistance"
    IN IF c.err # "none" THEN Finish(c, t, tpo, "NONE", c.err)
       ELSE \E s \in sample(c.products, c.filterSets[outerSet], c.filterSets["OUTLET"],
                            [op |-> "variable", key |-> weightVar],
                            params.samplingStrategy, 1) :
              LET cs == [c EXCEPT !.trace = @ \/ s.trace]
              IN IF s.err = "none"
                 THEN Finish(cs, t, addPeriod(tpo, currentPeriodID, 2, s.keys[1]),
                             "ASSIGNED", "none")
                 ELSE IF s.err = "SamplingError"
                 THEN Finish(cs, t, addPeriod(tpo, currentPeriodID, 3, PrevProductID(tpo)),
                             "UNASSIGNED", "none")
                 ELSE Finish(cs, t, tpo, "NONE", s.err)

\* The loop of substitute() comes to the offer t, which is not assigned, and
\* calls assignTPO; an error that escapes assignTPO ends the run
AssignTPO(t) ==
    /\ ret.err = "none"
    /\ t \in pending
    /\ ~isAssigned(tpoMap[t], currentPeriodID)
    /\ LET tpo == tpoMap[t]
           prevProductID == PrevProductID(tpo)
           newTPO == prevProductID = NoProduct
           c0 == [products |-> products, filterSets |-> filterSets,
                  err |-> "none", trace |-> FALSE]
       IN IF DOMAIN products = {}
          THEN Finish(c0, t, addPeriod(tpo, currentPeriodID, 3, prevProductID),
                      "OUT OF STOCK - EMPTY CLUSTER", "none")
          ELSE LET assignedProductIDs ==
                       getAssignedProductIDs(TPOs, tpoMap, currentPeriodID, tpo.outletID)
                   cO == FilterOutlet(FilterCurrent(c0, assignedProductIDs), tpo)
               IN IF cO.filterSets["OUTLET"] = {}
                  THEN Finish(cO, t, addPeriod(tpo, currentPeriodID, 3, prevProductID),
                              "OUT OF STOCK - EMPTY OUTLET", "none")
                  ELSE IF newTPO
                  THEN SelectProduct(FilterCandidates(cO, tpo, newTPO, params), t, newTPO)
                  ELSE \E K \in NearestSets(products, productDescData[prevProductID].desc,
                                   IF params.neighbourCount = NoneInt
                                   THEN Cardinality(DOMAIN products)
                                   ELSE params.neighbourCount) :
                         LET cR == FilterRelaunch(cO, tpo, K, params.relaunchDistanceCutoff)
                         IN IF cR.filterSets["RELAUNCH"] # {}
                            THEN \E s \in sample(cR.products, cR.filterSets["RELAUNCH"],
                                                 cR.filterSets["OUTLET"],
                                                 [op |-> "variable", key |-> "distance"],
                                                 "cutoff", 1) :
                                   IF s.err = "none"
                                   THEN Finish(cR, t,
                                               addPeriod(tpo, currentPeriodID, 1, s.keys[1]),
                                               "RELAUNCH", "none")
                                   ELSE SelectProduct(
                                            FilterCandidates(cR, tpo, newTPO, params), t, newTPO)
                            ELSE SelectProduct(
                                     FilterCandidates(cR, tpo, newTPO, params), t, newTPO)

\* ------------------------------------------------------ the sampler on its own
Sample ==
    /\ ~sam.called
    /\ \E s \in sample(sam.population, sam.innerSet, sam.outerSet,
                       [op |-> "variable", key |-> "p"], sam.samplingStrategy, sam.sampleSize) :
           sam' = [sam EXCEPT !.called = TRUE, !.result = s]
    /\ UNCHANGED <<products, filterSets, tpoMap, params, pending, ret, call, geography>>

\* ---------------------------------------------------------------- the inputs
SamplingStrategies == {"cutoff", "proportional", "top_proportional", "random"}

\* The cut-offs and the neighbour count: the default band of ranks over all
\* the neighbours with a relaunch within distance 1, and a narrow band with
\* the nearest neighbour alone and the default relaunch at distance 0
Settings ==
    {[lowerCutoff |-> <<1, 2>>, upperCutoff |-> One, neighbourCount |-> NoneInt,
      relaunchDistanceCutoff |-> One],
     [lowerCutoff |-> <<3, 5>>, upperCutoff |-> <<9, 10>>, neighbourCount |-> 1,
      relaunchDistanceCutoff |-> Zero]}

\* The sales of the current period (productData): a product of an even id is
\* sold at outlet 1 alone, the others at both outlets; no two sell the same.
\* The descriptions (DescOf) repeat every third product.
OutletsOf(p) == IF p % 2 = 1 THEN {1, 2} ELSE {1}
SalesOf(p) == 5 * (MaxProducts + 1 - p)

\* populateCluster, addUniqueProduct: the product p of the cluster
NewProduct(p) ==
    [UOM |-> productDescData[p].UOM, desc |-> productDescData[p].desc,
     properties |->
        [i \in {currentPeriodID} |-> [outletIDs |-> OutletsOf(p), sales |-> SalesOf(p)]],
     variables |-> EmptyMap]

\* An offer not assigned in the current period. prev is the product it had in
\* the previous period (buildMaps), or 0 for an offer whose previous record
\* holds no product, or -1 for an offer without a previous record, which is
\* here an offer in another unit of measure.
PrevKinds == ProductIDs \cup {0, NoProduct}

NewTPO(outletID, prev) ==
    [outletID |-> outletID,
     UOM |-> IF prev = NoProduct THEN "ml"
             ELSE IF prev = 0 THEN "g" ELSE productDescData[prev].UOM,
     rpName |-> <<"a", "b">>,
     properties |->
        IF prev = NoProduct
        THEN [i \in {currentPeriodID} |-> [statusID |-> 0, productID |-> NoProduct]]
        ELSE IF prev = 0
        THEN [i \in {currentPeriodID - 1, currentPeriodID} |->
                 [statusID |-> IF i = currentPeriodID THEN 0 ELSE 3, productID |-> NoProduct]]
        ELSE [i \in {currentPeriodID - 1, currentPeriodID} |->
                 [statusID |-> IF i = currentPeriodID THEN 0 ELSE 1, productID |-> prev]]]

\* The offers are numbered by outlet, then by previous product
Offers ==
    {o \in [TPOs -> OutletIDs \X PrevKinds] :
        \A t \in TPOs \ {NumTPOs} :
            \/ o[t][1] < o[t + 1][1]
            \/ o[t][1] = o[t + 1][1] /\ o[t][2] <= o[t + 1][2]}

NoCall == [tpo |-> 0, status |-> "NONE", err |-> "none", trace |-> FALSE]

NoResult == [err |-> "none", keys |-> <<>>, consulted |-> {}, trace |-> FALSE]

NoMethod == [method |-> "none", args |-> EmptyMap, err |-> "none", result |-> None]

NoSample ==
    [population |-> EmptyMap, innerSet |-> {}, outerSet |-> {},
     samplingStrategy |-> "cutoff", sampleSize |-> 1, called |-> FALSE, result |-> NoResult]

Init ==
    /\ \E pool \in SUBSET ProductIDs : products = [p \in pool |-> NewProduct(p)]
    /\ filterSets = EmptyMap
    /\ \E o \in Offers : tpoMap = [t \in TPOs |-> NewTPO(o[t][1], o[t][2])]
    /\ \E strategy \in SamplingStrategies, p \in Settings :
           params = [samplingStrategy |-> strategy,
                     lowerQuantityCutoff |-> p.lowerCutoff,
                     upperQuantityCutoff |-> p.upperCutoff,
                     neighbourCount |-> p.neighbourCount,
                     relaunchDistanceCutoff |-> p.relaunchDistanceCutoff,
                     lowerDistanceCutoff |-> p.lowerCutoff,
                     upperDistanceCutoff |-> p.upperCutoff]
    /\ pending = TPOs
    /\ ret = NoCall
    /\ sam = NoSample
    /\ call = NoMethod
    /\ geography = <<>>

Next == \E t \in TPOs : AssignTPO(t)

Spec == Init /\ [][Next]_vars

\* ------------------------------------------ the methods of Cluster on their own
\* A cluster of up to MaxItems products, with a score "x" or without, and
\* the filter sets "A" and "B", which applyFilterMask can set to any set of ids
ItemIDs == 1..MaxItems
SetNames == {"A", "B"}
Cutoffs == {None, Zero, One}
NameLists == UNION {[1..n -> SetNames] : n \in 0..2}

ScoredItems ==
    {[variables |-> EmptyMap]} \cup {[variables |-> [k \in {"x"} |-> v]] : v \in {Zero, One}}

\* A cluster of up to MaxProducts products with a score "x" of 0, 1, 2 or
\* infinity, or without a score and with or without a value "y" stored
\* earlier, and no filter set or the filter set "S" of some of them
NormModes == {"rank", "magnitude", "weight"}

RankedItems ==
    {[variables |-> EmptyMap], [variables |-> [k \in {"y"} |-> Two]]}
        \cup {[variables |-> [k \in {"x"} |-> v]] : v \in {Zero, One, Two, Inf}}

\* Geography.equals on two vectors of up to GeoLevels attributes
GeoLevels == 3
GeoValues == {"x", "y"}
Vectors == UNION {[1..n -> GeoValues] : n \in 0..GeoLevels}

\* The cluster as it stands, and a method returning: the cluster is left as c
\* and the call is recorded
Self == [products |-> products, filterSets |-> filterSets, err |-> "none", trace |-> FALSE]

Returned(c, method, args, result) ==
    /\ products' = c.products
    /\ filterSets' = c.filterSets
    /\ call' = [method |-> method, args |-> args, err |-> c.err, result |-> result]
    /\ UNCHANGED <<tpoMap, params, pending, ret, sam, geography>>

\* removeProduct, called once or a second time after a call that returned
RemoveProduct ==
    /\ call.method \in {"none", "removeProduct"}
    /\ call.err = "none"
    /\ \E productID \in ItemIDs :
           Returned(removeProduct(Self, productID), "removeProduct",
                    [productID |-> productID], None)

ApplyCutoffFilter ==
    /\ call.method = "none"
    /\ \E setName \in SetNames, lowerCutoff \in Cutoffs, upperCutoff \in Cutoffs :
           Returned(applyCutoffFilter(Self, setName, [op |-> "variable", key |-> "x"],
                                      lowerCutoff, upperCutoff),
                    "applyCutoffFilter",
                    [setName |-> setName, lowerCutoff |-> lowerCutoff,
                     upperCutoff |-> upperCutoff], None)

\* applyFilterMask; the result is the caller's set after the call, which
\* neither branch writes to
ApplyFilterMask ==
    /\ call.method = "none"
    /\ \E setName \in SetNames, productIDSet \in SUBSET ItemIDs,
          filterMode \in {"drop", "keep"} :
           Returned(applyFilterMask(Self, setName, productIDSet, filterMode),
                    "applyFilterMask",
                    [setName |-> setName, productIDSet |-> productIDSet,
                     filterMode |-> filterMode], productIDSet)

RemoveFilterSet ==
    /\ call.method = "none"
    /\ \E name \in SetNames :
           Returned(removeFilterSet(Self, name), "removeFilterSet",
                    [name |-> name], None)

\* intersectFilterSets; the list it was given is left without its first name
IntersectFilterSets ==
    /\ call.method = "none"
    /\ \E innerSetName \in SetNames \cup {"C"}, setNames \in NameLists :
           Returned(intersectFilterSets(Self, innerSetName, setNames),
                    "intersectFilterSets",
                    [innerSetName |-> innerSetName, setNames |-> setNames],
                    IF Len(setNames) = 0 THEN setNames ELSE Tail(setNames))

AddNormalizedVariable ==
    /\ call.method = "none"
    /\ \E varKey \in {"x", "y"}, setName \in {NoneName} \cup DOMAIN filterSets,
          normMode \in NormModes, invert \in BOOLEAN :
           Returned(addNormalizedVariable(Self, varKey, [op |-> "variable", key |-> "x"],
                                          setName, normMode, invert),
                    "addNormalizedVariable",
                    [varKey |-> varKey, setName |-> setName, normMode |-> normMode,
                     invert |-> invert], None)

Equals ==
    /\ call.method = "none"
    /\ \E props \in Vectors :
           call' = [method |-> "equals", args |-> [props |-> props], err |-> "none",
                    result |-> equals(geography, props)]
    /\ UNCHANGED <<products, filterSets, tpoMap, params, pending, ret, sam, geography>>

ClusterInit ==
    /\ \E pool \in SUBSET ItemIDs : products \in [pool -> ScoredItems]
    /\ \E names \in SUBSET SetNames : filterSets \in [names -> SUBSET ItemIDs]
    /\ tpoMap = EmptyMap
    /\ params = EmptyMap
    /\ pending = {}
    /\ ret = NoCall
    /\ sam = NoSample
    /\ call = NoMethod
    /\ geography = <<>>

ClusterNext ==
    \/ RemoveProduct
    \/ ApplyCutoffFilter
    \/ IntersectFilterSets
    \/ ApplyFilterMask
    \/ RemoveFilterSet

SpecCluster == ClusterInit /\ [][ClusterNext]_vars

NormalizeInit ==
    /\ \E pool \in SUBSET ProductIDs :
           /\ products \in [pool -> RankedItems]
           /\ \/ filterSets = EmptyMap
              \/ filterSets \in [{"S"} -> SUBSET pool]
    /\ tpoMap = EmptyMap
    /\ params = EmptyMap
    /\ pending = {}
    /\ ret = NoCall
    /\ sam = NoSample
    /\ call = NoMethod
    /\ geography = <<>>

NormalizeNext == AddNormalizedVariable

SpecNormalize == NormalizeInit /\ [][NormalizeNext]_vars

GeographyInit ==
    /\ products = EmptyMap
    /\ filterSets = EmptyMap
    /\ tpoMap = EmptyMap
    /\ params = EmptyMap
    /\ pending = {}
    /\ ret = NoCall
    /\ sam = NoSample
    /\ call = NoMethod
    /\ geography \in Vectors

GeographyNext == Equals

SpecGeography == GeographyInit /\ [][GeographyNext]_vars

\* ------------------------------------------------- the sampler on its own
\* The items of a population carry their inclusion probability in the
\* variable "p", or carry none
Items ==
    {[variables |-> EmptyMap]} \cup {[variables |-> [k \in {"p"} |-> v]] : v \in {Zero, One, Inf}}

Keys == 1..MaxKeys

SampleInit ==
    /\ products = EmptyMap
    /\ filterSets = EmptyMap
    /\ tpoMap = EmptyMap
    /\ params = EmptyMap
    /\ pending = {}
    /\ ret = NoCall
    /\ call = NoMethod
    /\ geography = <<>>
    /\ \E keys \in SUBSET Keys, innerSet \in SUBSET Keys, outerSet \in SUBSET Keys :
       \E population \in [keys -> Items], samplingStrategy \in SamplingStrategies,
          sampleSize \in 1..MaxSample :
           sam = [population |-> population, innerSet |-> innerSet, outerSet |-> outerSet,
                  samplingStrategy |-> samplingStrategy, sampleSize |-> sampleSize,
                  called |-> FALSE, result |-> NoResult]

SampleNext == Sample

SpecSample == SampleInit /\ [][SampleNext]_vars

\* ------------------------------------------------------------------ claims
\* C1: whenever assignTPO returns, the tag it returns and the status it left
\* in the offer's record of the current period agree: "RELAUNCH" with 1,
\* "ASSIGNED" with 2, "UNASSIGNED" and the two "OUT OF STOCK" tags with 3; the
\* tag is one of these five and the status is no longer 0.
TagMatchesStatus ==
    (ret.tpo # 0 /\ ret.err = "none") =>
        LET statusID == tpoMap[ret.tpo].properties[currentPeriodID].statusID
        IN /\ ret.status \in {"RELAUNCH", "ASSIGNED", "UNASSIGNED",
                              "OUT OF STOCK - EMPTY CLUSTER", "OUT OF STOCK - EMPTY OUTLET"}
           /\ (ret.status = "RELAUNCH") <=> (statusID = 1)
           /\ (ret.status = "ASSIGNED") <=> (statusID = 2)
           /\ (ret.status \in {"UNASSIGNED", "OUT OF STOCK - EMPTY CLUSTER",
                               "OUT OF STOCK - EMPTY OUTLET"}) <=> (statusID = 3)
           /\ statusID # 0

\* A call returned "ASSIGNED" and left the status 2, after another call
TagMatchesStatusWitness ==
    /\ ret.tpo # 0
    /\ ret.status = "ASSIGNED"
    /\ tpoMap[ret.tpo].properties[currentPeriodID].statusID = 2
    /\ pending = {}

\* C2, as claimed: no two assigned offers at one outlet hold the same product.
NoSharedProduct ==
    \A t \in DOMAIN tpoMap, u \in DOMAIN tpoMap :
        (/\ t # u
         /\ tpoMap[t].outletID = tpoMap[u].outletID
         /\ tpoMap[t].properties[currentPeriodID].statusID \in {1, 2}
         /\ tpoMap[u].properties[currentPeriodID].statusID \in {1, 2})
        => tpoMap[t].properties[currentPeriodID].productID
               # tpoMap[u].properties[currentPeriodID].productID

\* C2, amended: the product assignTPO assigns to an offer is not one held at
\* that moment by another assigned offer at the same outlet, as long as the
\* cluster holds a product that no other offer at the outlet holds.
NoSharedProductUnlessReverted ==
    (ret.tpo # 0 /\ ret.status \in {"RELAUNCH", "ASSIGNED"}) =>
        LET held == {tpoMap[u].properties[currentPeriodID].productID :
                        u \in {v \in DOMAIN tpoMap \ {ret.tpo} :
                                 /\ tpoMap[v].outletID = tpoMap[ret.tpo].outletID
                                 /\ tpoMap[v].properties[currentPeriodID].statusID \in {1, 2}}}
        IN (DOMAIN products) \ held # {} =>
               tpoMap[ret.tpo].properties[currentPeriodID].productID \notin held

\* An offer was assigned a product while another offer at its outlet held a
\* product of the cluster
NoSharedProductWitness ==
    /\ ret.tpo # 0
    /\ ret.status \in {"RELAUNCH", "ASSIGNED"}
    /\ \E u \in DOMAIN tpoMap \ {ret.tpo} :
          /\ tpoMap[u].outletID = tpoMap[ret.tpo].outletID
          /\ tpoMap[u].properties[currentPeriodID].statusID \in {1, 2}
          /\ tpoMap[u].properties[currentPeriodID].productID \in DOMAIN products
          /\ tpoMap[u].properties[currentPeriodID].productID
                 # tpoMap[ret.tpo].properties[currentPeriodID].productID

\* C3: a call that reaches the final draw hands the sampler a non-empty inner
\* set (DISTANCE for a continuing offer, SIMILAR for a new one) and a
\* non-empty OUTLET, and never returns "UNASSIGNED".
CandidateSetsNonEmpty ==
    (/\ ret.tpo # 0
     /\ ret.status \notin {"RELAUNCH", "OUT OF STOCK - EMPTY CLUSTER",
                           "OUT OF STOCK - EMPTY OUTLET"}) =>
        LET properties == tpoMap[ret.tpo].properties
            newTPO == \/ currentPeriodID - 1 \notin DOMAIN properties
                      \/ properties[currentPeriodID - 1].productID = -1
            inner == IF newTPO THEN "SIMILAR" ELSE "DISTANCE"
        IN /\ inner \in DOMAIN filterSets
           /\ filterSets[inner] # {}
           /\ filterSets["OUTLET"] # {}
           /\ ret.status # "UNASSIGNED"

\* A call reached the final draw after the rollback of an emptied set
CandidateSetsNonEmptyWitness ==
    /\ ret.tpo # 0
    /\ ret.status = "ASSIGNED"
    /\ ret.trace
    /\ currentPeriodID - 1 \in DOMAIN tpoMap[ret.tpo].properties
    /\ tpoMap[ret.tpo].properties[currentPeriodID - 1].productID # -1
    /\ filterSets["DISTANCE"] = filterSets["SIMILAR"]

\* C4, as claimed: on a non-empty cluster every call of assignTPO returns one
\* of its tags and no error escapes it, whatever the sampling strategy.
NoErrorEscapes ==
    (ret.tpo # 0 /\ DOMAIN products # {}) =>
        /\ ret.err = "none"
        /\ ret.status \in {"RELAUNCH", "ASSIGNED", "UNASSIGNED",
                           "OUT OF STOCK - EMPTY CLUSTER", "OUT OF STOCK - EMPTY OUTLET"}

\* C5: after step 2 on a non-empty cluster, CURRENT is the products of the
\* cluster less those held by the other assigned offers at the offer's outlet
\* when some product is left, and all the products of the cluster otherwise;
\* CURRENT is never empty.
CurrentAfterStep2 ==
    (ret.tpo # 0 /\ DOMAIN products # {}) =>
        LET held == {tpoMap[u].properties[currentPeriodID].productID :
                        u \in {v \in DOMAIN tpoMap \ {ret.tpo} :
                                 /\ tpoMap[v].outletID = tpoMap[ret.tpo].outletID
                                 /\ tpoMap[v].properties[currentPeriodID].statusID \in {1, 2}}}
            left == (DOMAIN products) \ held
        IN /\ "CURRENT" \in DOMAIN filterSets
           /\ filterSets["CURRENT"] = IF left # {} THEN left ELSE DOMAIN products
           /\ filterSets["CURRENT"] # {}

\* Step 2 took a held product out of CURRENT and left another in it
CurrentAfterStep2Witness ==
    /\ ret.tpo # 0
    /\ "CURRENT" \in DOMAIN filterSets
    /\ filterSets["CURRENT"] # {}
    /\ filterSets["CURRENT"] # DOMAIN products
    /\ \E u \in DOMAIN tpoMap \ {ret.tpo} :
          /\ tpoMap[u].outletID = tpoMap[ret.tpo].outletID
          /\ tpoMap[u].properties[currentPeriodID].statusID \in {1, 2}
          /\ tpoMap[u].properties[currentPeriodID].productID \notin filterSets["CURRENT"]

\* C6: a call that returns one of the two "OUT OF STOCK" tags leaves the
\* offer's record of the current period with status 3 and the product of the
\* previous period's record (-1 without such a record), writes no score to a
\* product and builds no filter set beyond CURRENT and OUTLET (none at all for
\* an empty cluster).
EarlyTermination ==
    [][ret'.status \in {"OUT OF STOCK - EMPTY CLUSTER", "OUT OF STOCK - EMPTY OUTLET"} =>
          LET t == ret'.tpo
              prior == IF currentPeriodID - 1 \in DOMAIN tpoMap[t].properties
                       THEN tpoMap[t].properties[currentPeriodID - 1].productID
                       ELSE -1
          IN /\ tpoMap'[t].properties[currentPeriodID] = [statusID |-> 3, productID |-> prior]
             /\ products' = products
             /\ \A name \in DOMAIN filterSets' \ {"CURRENT", "OUTLET"} :
                    name \in DOMAIN filterSets /\ filterSets'[name] = filterSets[name]
             /\ ret'.status = "OUT OF STOCK - EMPTY CLUSTER" => filterSets' = filterSets
             /\ ret'.status = "OUT OF STOCK - EMPTY OUTLET" =>
                    "OUTLET" \in DOMAIN filterSets' /\ filterSets'["OUTLET"] = {}]_vars

\* A continuing offer ended on an empty OUTLET and kept its previous product
EarlyTerminationWitness ==
    /\ ret.tpo # 0
    /\ ret.status = "OUT OF STOCK - EMPTY OUTLET"
    /\ currentPeriodID - 1 \in DOMAIN tpoMap[ret.tpo].properties
    /\ tpoMap[ret.tpo].properties[currentPeriodID - 1].productID # -1
    /\ tpoMap[ret.tpo].properties[currentPeriodID] =
           [statusID |-> 3,
            productID |-> tpoMap[ret.tpo].properties[currentPeriodID - 1].productID]

\* C7: for a continuing offer with a non-empty OUTLET, let R be the products
\* of OUTLET at a distance of at most relaunchDistanceCutoff. If R is not
\* empty the call returns "RELAUNCH", leaves status 1 and a product of R; if R
\* is empty the call goes on to the quantity stage (the sales ranks of OUTLET
\* and TOP_SELLERS).
RelaunchWithinCutoff ==
    (/\ ret.tpo # 0
     /\ currentPeriodID - 1 \in DOMAIN tpoMap[ret.tpo].properties
     /\ tpoMap[ret.tpo].properties[currentPeriodID - 1].productID # -1
     /\ DOMAIN products # {}
     /\ filterSets["OUTLET"] # {}) =>
        LET R == {p \in filterSets["OUTLET"] :
                    LET d == products[p].variables["distance"]
                        cutoff == params.relaunchDistanceCutoff
                    IN d[1] * cutoff[2] <= cutoff[1] * d[2]}
            record == tpoMap[ret.tpo].properties[currentPeriodID]
        IN IF R # {}
           THEN ret.status = "RELAUNCH" /\ record.statusID = 1 /\ record.productID \in R
           ELSE /\ ret.status # "RELAUNCH"
                /\ "TOP_SELLERS" \in DOMAIN filterSets
                /\ \A p \in filterSets["OUTLET"] : "Sales" \in DOMAIN products[p].variables

\* A continuing offer was given its relaunched product
RelaunchWithinCutoffWitness ==
    /\ ret.tpo # 0
    /\ ret.status = "RELAUNCH"
    /\ tpoMap[ret.tpo].properties[currentPeriodID].productID \in filterSets["OUTLET"]
    /\ products[tpoMap[ret.tpo].properties[currentPeriodID].productID].variables["distance"]
           = Zero
    /\ Cardinality(filterSets["OUTLET"]) > 1

\* C8: for a new offer under 'top_proportional' with a non-empty OUTLET the
\* call returns "ASSIGNED" with a product of SIMILAR, and when some product of
\* OUTLET has its sales rank within the quantity cut-offs, so has the product
\* assigned.
TopProportionalInBand ==
    (/\ ret.tpo # 0
     /\ \/ currentPeriodID - 1 \notin DOMAIN tpoMap[ret.tpo].properties
        \/ tpoMap[ret.tpo].properties[currentPeriodID - 1].productID = -1
     /\ params.samplingStrategy = "top_proportional"
     /\ DOMAIN products # {}
     /\ filterSets["OUTLET"] # {}) =>
        LET item == tpoMap[ret.tpo].properties[currentPeriodID].productID
            lower == params.lowerQuantityCutoff
            upper == params.upperQuantityCutoff
            InBand(p) ==
                LET score == products[p].variables["Sales"]
                IN /\ lower[1] * score[2] <= score[1] * lower[2]
                   /\ score[1] * upper[2] <= upper[1] * score[2]
        IN /\ ret.status = "ASSIGNED"
           /\ item \in filterSets["SIMILAR"]
           /\ (\E p \in filterSets["OUTLET"] : InBand(p)) => InBand(item)

\* A new offer was assigned a product under 'top_proportional' while the
\* lowest of three sales ranks of OUTLET was below the lower cut-off
TopProportionalInBandWitness ==
    /\ ret.tpo # 0
    /\ ret.status = "ASSIGNED"
    /\ params.samplingStrategy = "top_proportional"
    /\ \/ currentPeriodID - 1 \notin DOMAIN tpoMap[ret.tpo].properties
       \/ tpoMap[ret.tpo].properties[currentPeriodID - 1].productID = -1
    /\ Cardinality(filterSets["OUTLET"]) = 3
    /\ \E p \in filterSets["OUTLET"] :
          /\ products[p].variables["Sales"] = <<2, 6>>
          /\ p \notin filterSets["TOP_SELLERS"]
    /\ tpoMap[ret.tpo].properties[currentPeriodID].productID \in filterSets["TOP_SELLERS"]

EmptySetsRaiseSamplingError ==
    sam.called =>
        LET candidates ==
                IF sam.samplingStrategy \in {"cutoff", "top_proportional"} THEN sam.innerSet
                ELSE IF sam.samplingStrategy = "proportional"
                     THEN sam.innerSet \cup sam.outerSet
                     ELSE sam.outerSet
        IN (DOMAIN sam.population = {} \/ candidates = {}) =>
               sam.result.err = "SamplingError" /\ sam.result.keys = <<>>

\* 'cutoff' with an empty innerSet raised SamplingError on a population and
\* an outerSet that are not empty
EmptySetsRaiseSamplingErrorWitness ==
    /\ sam.called
    /\ DOMAIN sam.population # {}
    /\ sam.samplingStrategy = "cutoff"
    /\ sam.innerSet = {}
    /\ sam.outerSet # {}
    /\ sam.result.err = "SamplingError"

\* C11: under 'proportional' and 'top_proportional', on a candidate set whose
\* members all carry a probability: when the probabilities sum to 0 (all are
\* 0) or to +infinity (one is), the call raises nothing and each candidate can
\* be the key returned; when the sum is positive and finite, no returned key
\* has probability 0.
DegenerateSumsDrawUniformly ==
    LET candidates == IF sam.samplingStrategy = "proportional"
                      THEN sam.innerSet \cup sam.outerSet ELSE sam.innerSet
    IN (/\ sam.samplingStrategy \in {"proportional", "top_proportional"}
        /\ candidates # {}
        /\ candidates \subseteq DOMAIN sam.population
        /\ \A k \in candidates : "p" \in DOMAIN sam.population[k].variables) =>
           IF \/ \A k \in candidates : sam.population[k].variables["p"] = Zero
              \/ \E k \in candidates : sam.population[k].variables["p"] = Inf
           THEN /\ sam.called => sam.result.err = "none"
                /\ ~sam.called =>
                       \A k \in candidates :
                           ENABLED (Sample /\ sam'.result.err = "none"
                                           /\ sam'.result.keys[1] = k)
           ELSE sam.called =>
                    /\ sam.result.err = "none"
                    /\ \A i \in 1..Len(sam.result.keys) :
                           sam.population[sam.result.keys[i]].variables["p"] # Zero

\* 'proportional' over two candidates of probability 0 returned the second
DegenerateSumsDrawUniformlyWitness ==
    /\ sam.called
    /\ sam.samplingStrategy = "proportional"
    /\ sam.innerSet \cup sam.outerSet = {1, 2}
    /\ DOMAIN sam.population = {1, 2}
    /\ \A k \in {1, 2} : sam.population[k].variables = [v \in {"p"} |-> Zero]
    /\ sam.result.err = "none"
    /\ sam.result.keys[1] = 2

\* C12: a call of applyCutoffFilter with two bounds, the upper one smaller
\* than the lower one, raises ValueError and leaves every filter set as it
\* was, whatever the set named and whether it exists or not.
CutoffBoundsChecked ==
    [][(/\ call'.method = "applyCutoffFilter"
        /\ call'.args.lowerCutoff # None
        /\ call'.args.upperCutoff # None
        /\ Lt(call'.args.upperCutoff, call'.args.lowerCutoff)) =>
           /\ call'.err = "ValueError"
           /\ filterSets' = filterSets]_vars

\* The bounds [1, 0] on a set that holds a product of score 1 and on another
\* set: ValueError, and both sets are still there
CutoffBoundsCheckedWitness ==
    /\ call.method = "applyCutoffFilter"
    /\ call.args.lowerCutoff = One
    /\ call.args.upperCutoff = Zero
    /\ call.err = "ValueError"
    /\ DOMAIN filterSets = {"A", "B"}
    /\ \E p \in filterSets[call.args.setName] :
          p \in DOMAIN products /\ Var(products[p], "x") = One

\* C13, as claimed: removeProduct called with an id that is not in the pool
\* (as in a second call with the same id) raises nothing and leaves the
\* products and every filter set as they were.
RemoveProductIdempotent ==
    [][(/\ call'.method = "removeProduct"
        /\ call'.args.productID \notin DOMAIN products) =>
           /\ call'.err = "none"
           /\ products' = products
           /\ filterSets' = filterSets]_vars

\* C14: in 'rank' mode over N products that all have a score, a product with
\* L smaller scores and E equal scores (itself included) is stored
\* (L + (E + 1) / 2) / N, or 1 - (L + (E + 1) / 2 - 1) / N when inverted; with
\* pairwise distinct scores these are r / N and 1 - (r - 1) / N for its
\* ascending rank r = L + 1, one value of 1/N .. N/N for each product; every
\* stored value is in (0, 1]. The scores are those the retriever returns: 0
\* for each product when it reads the variable being stored.
RankNormalization ==
    (/\ call.method = "addNormalizedVariable"
     /\ call.args.normMode = "rank") =>
        LET scope == IF call.args.setName = NoneName THEN DOMAIN products
                     ELSE filterSets[call.args.setName]
            N == Cardinality(scope)
            score(p) == IF call.args.varKey = "x" THEN Zero ELSE products[p].variables["x"]
            stored(p) == products[p].variables[call.args.varKey]
            L(p) == Cardinality({q \in scope : Lt(score(q), score(p))})
            E(p) == Cardinality({q \in scope : FEq(score(q), score(p))})
            distinct == \A p \in scope, q \in scope : p # q => ~FEq(score(p), score(q))
        IN (call.args.varKey = "x" \/ \A p \in scope : "x" \in DOMAIN products[p].variables) =>
               /\ call.err = "none"
               /\ \A p \in scope :
                     /\ FEq(stored(p), IF call.args.invert
                                       THEN <<2 * N - (2 * L(p) + E(p) + 1) + 2, 2 * N>>
                                       ELSE <<2 * L(p) + E(p) + 1, 2 * N>>)
                     /\ Lt(Zero, stored(p))
                     /\ Leq(stored(p), One)
               /\ distinct =>
                     /\ \A p \in scope :
                            FEq(stored(p), IF call.args.invert THEN <<N - L(p), N>>
                                           ELSE <<L(p) + 1, N>>)
                     /\ \A r \in 1..N : \E p \in scope : FEq(stored(p), <<r, N>>)
                     /\ \A p \in scope, q \in scope :
                            p # q => ~FEq(stored(p), stored(q))

\* Three products of scores 0, 2 and 1 ranked in "y": 1/3, 3/3 and 2/3
RankNormalizationWitness ==
    /\ call.method = "addNormalizedVariable"
    /\ call.args.normMode = "rank"
    /\ call.args.varKey = "y"
    /\ ~call.args.invert
    /\ call.args.setName = "S"
    /\ filterSets["S"] = {1, 2, 3}
    /\ Var(products[1], "x") = Zero /\ FEq(products[1].variables["y"], <<1, 3>>)
    /\ Var(products[2], "x") = Two /\ FEq(products[2].variables["y"], <<3, 3>>)
    /\ Var(products[3], "x") = One /\ FEq(products[3].variables["y"], <<2, 3>>)

\* C15: when a product of the scope has no score, addNormalizedVariable
\* raises nothing and leaves 0 under the name for every product of the scope,
\* in every mode.
MissingScoreZeroesAll ==
    (/\ call.method = "addNormalizedVariable"
     /\ call.args.varKey = "y") =>
        LET scope == IF call.args.setName = NoneName THEN DOMAIN products
                     ELSE filterSets[call.args.setName]
        IN (\E p \in scope : "x" \notin DOMAIN products[p].variables) =>
               /\ call.err = "none"
               /\ \A p \in scope : Var(products[p], "y") = Zero

\* The second of three products had no score but a value stored earlier, the
\* first and the third had scores: all three are left with 0
MissingScoreZeroesAllWitness ==
    /\ call.method = "addNormalizedVariable"
    /\ call.args.varKey = "y"
    /\ call.args.normMode = "magnitude"
    /\ call.args.setName = NoneName
    /\ DOMAIN products = {1, 2, 3}
    /\ "x" \in DOMAIN products[1].variables
    /\ "x" \notin DOMAIN products[2].variables
    /\ "x" \in DOMAIN products[3].variables
    /\ \A p \in {1, 2, 3} : products[p].variables["y"] = Zero

\* C17, as claimed: equals returns true exactly when the two vectors agree on
\* the entries both have, whichever is the shorter.
EqualsIsPrefixComparison ==
    call.method = "equals" =>
        LET a == geography
            b == call.args.props
            shorter == IF Len(a) < Len(b) THEN Len(a) ELSE Len(b)
        IN call.result = (\A i \in 1..shorter : a[i] = b[i])

\* C18: intersectFilterSets with a list of names of filter sets that exist
\* and is not empty raises nothing and stores under the name given the
\* products that are in every set named; with an empty list it raises
\* ValueError and leaves the filter sets as they were.
IntersectionStored ==
    [][call'.method = "intersectFilterSets" =>
          LET setNames == call'.args.setNames
          IN IF Len(setNames) = 0
             THEN call'.err = "ValueError" /\ filterSets' = filterSets
             ELSE (\A i \in 1..Len(setNames) : setNames[i] \in DOMAIN filterSets) =>
                      /\ call'.err = "none"
                      /\ call'.args.innerSetName \in DOMAIN filterSets'
                      /\ filterSets'[call'.args.innerSetName] =
                             {p \in ItemIDs :
                                 \A i \in 1..Len(setNames) : p \in filterSets[setNames[i]]}]_vars

\* "C" was stored as the intersection {2} of "A" = {1, 2} and "B" = {2}
IntersectionStoredWitness ==
    /\ call.method = "intersectFilterSets"
    /\ call.args.setNames = <<"A", "B">>
    /\ call.args.innerSetName = "C"
    /\ call.err = "none"
    /\ filterSets = [n \in {"A", "B", "C"} |-> IF n = "A" THEN {1, 2} ELSE {2}]

\* C16: on a cluster that is not empty, steps 2 and 3 run for an offer still
\* to be visited on the cluster as earlier calls left it, run again on their
\* own result, and run on the cluster without any filter set, give the same
\* CURRENT and the same OUTLET.
OutletBuildIdempotent ==
    DOMAIN products # {} =>
        \A t \in pending :
            \A assignedProductIDs \in
                   {getAssignedProductIDs(TPOs, tpoMap, currentPeriodID, tpoMap[t].outletID)} :
            \A once \in {FilterOutlet(FilterCurrent(Self, assignedProductIDs), tpoMap[t])} :
            \A twice \in {FilterOutlet(FilterCurrent(once, assignedProductIDs), tpoMap[t])} :
            \A fresh \in {FilterOutlet(FilterCurrent([Self EXCEPT !.filterSets = EmptyMap],
                                                     assignedProductIDs), tpoMap[t])} :
                /\ once.err = "none" /\ twice.err = "none" /\ fresh.err = "none"
                /\ \A name \in {"CURRENT", "OUTLET"} :
                      /\ twice.filterSets[name] = once.filterSets[name]
                      /\ fresh.filterSets[name] = once.filterSets[name]

\* An earlier call left a CURRENT and an OUTLET that are not those of an
\* offer still to be visited, whose OUTLET is not empty
OutletBuildIdempotentWitness ==
    /\ ret.tpo # 0
    /\ \E t \in pending :
          LET assignedProductIDs ==
                  getAssignedProductIDs(TPOs, tpoMap, currentPeriodID, tpoMap[t].outletID)
              once == FilterOutlet(FilterCurrent(Self, assignedProductIDs), tpoMap[t])
          IN /\ "OUTLET" \in DOMAIN filterSets
             /\ once.filterSets["OUTLET"] # {}
             /\ once.filterSets["OUTLET"] # filterSets["OUTLET"]
             /\ once.filterSets["CURRENT"] # filterSets["CURRENT"]

\* C19: the product a call of assignTPO records with status 1 (CONTINUITY) or
\* 2 (SUBSTITUTION) is in the OUTLET the call built, is a product of the
\* cluster, is sold at the outlet of the offer in the current period and has
\* the unit of measure of the offer.
AssignedFromOutlet ==
    (/\ ret.tpo # 0
     /\ tpoMap[ret.tpo].properties[currentPeriodID].statusID \in {1, 2}) =>
        LET tpo == tpoMap[ret.tpo]
            productID == tpo.properties[currentPeriodID].productID
        IN /\ productID \in filterSets["OUTLET"]
           /\ productID \in DOMAIN products
           /\ tpo.outletID \in products[productID].properties[currentPeriodID].outletIDs
           /\ products[productID].UOM = tpo.UOM

\* Under the default strategy an offer was given a product of OUTLET that is
\* not of SIMILAR
AssignedFromOutletWitness ==
    /\ ret.tpo # 0
    /\ ret.status = "ASSIGNED"
    /\ params.samplingStrategy = "random"
    /\ tpoMap[ret.tpo].properties[currentPeriodID].statusID = 2
    /\ tpoMap[ret.tpo].properties[currentPeriodID].productID
           \in filterSets["OUTLET"] \ filterSets["SIMILAR"]

SimilarIsMaxSimilarity ==
    (/\ ret.tpo # 0
     /\ DOMAIN products # {}
     /\ filterSets["OUTLET"] # {}
     /\ ret.status # "RELAUNCH") =>
        LET rpName == tpoMap[ret.tpo].rpName
            top == filterSets["TOP_SELLERS"]
            words(p) == Cardinality({i \in 1..Len(rpName) : rpName[i] \in products[p].desc})
            best == {p \in top : \A q \in top : words(q) <= words(p)}
        IN /\ filterSets["SIMILAR"] = IF \A p \in top : words(p) = 0 THEN top ELSE best
           /\ top # {} => filterSets["SIMILAR"] # {}

\* TOP_SELLERS held two products and SIMILAR kept the one of them whose
\* description holds both words of the name
SimilarIsMaxSimilarityWitness ==
    /\ ret.tpo # 0
    /\ ret.status = "ASSIGNED"
    /\ Cardinality(filterSets["TOP_SELLERS"]) = 2
    /\ filterSets["SIMILAR"] = {1}
    /\ products[1].variables["similarity"] = <<2, 2>>

\* C22, as claimed: a call of applyCutoffFilter on a filter set, with bounds
\* that are not upper < lower, raises nothing and leaves in the set the
\* members whose score is at least the lower bound and at most the upper
\* bound, a bound of None not counting, and every member when both are None;
\* a member without a score is dropped when a bound is given.
CutoffKeepsMembersInRange ==
    [][(/\ call'.method = "applyCutoffFilter"
        /\ call'.args.setName \in DOMAIN filterSets
        /\ call'.err # "ValueError") =>
           LET lower == call'.args.lowerCutoff
               upper == call'.args.upperCutoff
               before == filterSets[call'.args.setName]
               inRange(p) == /\ p \in DOMAIN products
                             /\ "x" \in DOMAIN products[p].variables
                             /\ lower # None => Leq(lower, products[p].variables["x"])
                             /\ upper # None => Leq(products[p].variables["x"], upper)
           IN /\ call'.err = "none"
              /\ filterSets'[call'.args.setName] =
                     IF lower = None /\ upper = None THEN before
                     ELSE {p \in before : inRange(p)}
              /\ filterSets'[call'.args.setName] \subseteq before]_vars

\* C22, amended: as claimed, but with both bounds None the members kept are
\* those that are products of the cluster: an id without a product is dropped
\* from the set whatever the bounds.
CutoffKeepsProductsInRange ==
    [][(/\ call'.method = "applyCutoffFilter"
        /\ call'.args.setName \in DOMAIN filterSets
        /\ call'.err # "ValueError") =>
           LET lower == call'.args.lowerCutoff
               upper == call'.args.upperCutoff
               before == filterSets[call'.args.setName]
               inRange(p) == /\ "x" \in DOMAIN products[p].variables
                             /\ lower # None => Leq(lower, products[p].variables["x"])
                             /\ upper # None => Leq(products[p].variables["x"], upper)
           IN /\ call'.err = "none"
              /\ products' = products
              /\ filterSets'[call'.args.setName] =
                     {p \in before \cap DOMAIN products :
                         (lower = None /\ upper = None) \/ inRange(p)}
              /\ filterSets'[call'.args.setName] \subseteq before]_vars

\* Without bounds, a set of the product 1, which has no score, and of the id
\* 2, which has no product, was left with the product 1
CutoffKeepsProductsInRangeWitness ==
    /\ call.method = "applyCutoffFilter"
    /\ call.args.lowerCutoff = None
    /\ call.args.upperCutoff = None
    /\ call.args.setName = "A"
    /\ call.err = "none"
    /\ DOMAIN products = {1}
    /\ products[1].variables = EmptyMap
    /\ filterSets = [n \in {"A", "B"} |-> IF n = "A" THEN {1} ELSE {1, 2}]

RemoveProductScrubs ==
    [][(/\ call'.method = "removeProduct"
        /\ call'.args.productID \in DOMAIN products) =>
           LET productID == call'.args.productID
           IN /\ call'.err = "none"
              /\ DOMAIN products' = DOMAIN products \ {productID}
              /\ \A p \in DOMAIN products' : products'[p] = products[p]
              /\ DOMAIN filterSets' = DOMAIN filterSets
              /\ \A name \in DOMAIN filterSets :
                     /\ filterSets'[name] = filterSets[name] \ {productID}
                     /\ productID \notin filterSets[name] =>
                            filterSets'[name] = filterSets[name]]_vars

\* The product 1 was removed from a cluster that is left with the product 2,
\* a member of both of its filter sets
RemoveProductScrubsWitness ==
    /\ call.method = "removeProduct"
    /\ call.args.productID = 1
    /\ call.err = "none"
    /\ DOMAIN products = {2}
    /\ filterSets = [n \in {"A", "B"} |-> {2}]

\* C30: removeFilterSet of the name of a filter set raises nothing and leaves
\* the cluster without that filter set, with every other filter set and the
\* products as they were.
RemoveFilterSetRemoves ==
    [][(/\ call'.method = "removeFilterSet"
        /\ call'.args.name \in DOMAIN filterSets) =>
           /\ call'.err = "none"
           /\ DOMAIN filterSets' = DOMAIN filterSets \ {call'.args.name}
           /\ \A name \in DOMAIN filterSets' : filterSets'[name] = filterSets[name]
           /\ products' = products]_vars

\* C26: addNormalizedVariable in 'magnitude' mode over products whose scores
\* are all the same finite number, and in 'weight' mode over products whose
\* scores sum to 0, raises nothing and leaves 0 under the name for every
\* product of the scope.
ZeroDenominatorStoresZero ==
    (/\ call.method = "addNormalizedVariable"
     /\ call.args.varKey = "y") =>
        LET scope == IF call.args.setName = NoneName THEN DOMAIN products
                     ELSE filterSets[call.args.setName]
            scored == \A p \in scope : "x" \in DOMAIN products[p].variables
            values == [p \in scope |-> products[p].variables["x"]]
            allEqual == /\ scope # {}
                        /\ \A p \in scope : values[p][2] # 0
                        /\ \A p, q \in scope : FEq(values[p], values[q])
            sumsToZero == IsZero(SumOver(values, scope))
        IN (/\ scored
            /\ \/ call.args.normMode = "magnitude" /\ allEqual
               \/ call.args.normMode = "weight" /\ sumsToZero) =>
               /\ call.err = "none"
               /\ \A p \in scope : Var(products[p], "y") = Zero

\* C27: a call of assignTPO that returns "RELAUNCH" leaves the filter sets
\* TOP_SELLERS, SIMILAR and DISTANCE, present or absent, and the variables
\* 'Sales', 'similarity' and 'normDistance' of every product, present or
\* absent, as they were before the call.
RelaunchBypassesStages ==
    [][ret'.status = "RELAUNCH" =>
           /\ \A name \in {"TOP_SELLERS", "SIMILAR", "DISTANCE"} :
                  /\ name \in DOMAIN filterSets' <=> name \in DOMAIN filterSets
                  /\ name \in DOMAIN filterSets => filterSets'[name] = filterSets[name]
           /\ DOMAIN products' = DOMAIN products
           /\ \A p \in DOMAIN products :
                  \A key \in {"Sales", "similarity", "normDistance"} :
                      Var(products'[p], key) = Var(products[p], key)]_vars

\* A relaunch was returned for the second offer after the first had left
\* TOP_SELLERS, SIMILAR and DISTANCE and the three variables
RelaunchBypassesStagesWitness ==
    /\ ret.status = "RELAUNCH"
    /\ {"TOP_SELLERS", "SIMILAR", "DISTANCE"} \subseteq DOMAIN filterSets
    /\ filterSets["TOP_SELLERS"] # filterSets["OUTLET"]
    /\ \E p \in DOMAIN products :
           {"Sales", "similarity", "normDistance"} \subseteq DOMAIN products[p].variables

\* C28: a call of assignTPO, however it ends, leaves the same products in the
\* cluster, every other offer as it was, and the offer it was given with the
\* records of every period but the current one as they were.
OnlyCurrentRecordWritten ==
    [][ret' # ret =>
           /\ DOMAIN products' = DOMAIN products
           /\ \A t \in TPOs \ {ret'.tpo} : tpoMap'[t] = tpoMap[t]
           /\ LET before == tpoMap[ret'.tpo]
                  after == tpoMap'[ret'.tpo]
              IN /\ after.outletID = before.outletID
                 /\ after.UOM = before.UOM
                 /\ after.rpName = before.rpName
                 /\ DOMAIN after.properties = DOMAIN before.properties \cup {currentPeriodID}
                 /\ \A i \in DOMAIN before.properties \ {currentPeriodID} :
                        after.properties[i] = before.properties[i]]_vars

\* A continuing offer was assigned another product than its previous one, and
\* its previous record still holds the previous product
OnlyCurrentRecordWrittenWitness ==
    /\ ret.tpo # 0
    /\ ret.status = "ASSIGNED"
    /\ currentPeriodID - 1 \in DOMAIN tpoMap[ret.tpo].properties
    /\ tpoMap[ret.tpo].properties[currentPeriodID - 1].statusID = 1
    /\ tpoMap[ret.tpo].properties[currentPeriodID].statusID = 2
    /\ tpoMap[ret.tpo].properties[currentPeriodID].productID #
           tpoMap[ret.tpo].properties[currentPeriodID - 1].productID

\* C25: the scores a call of assignTPO reads were written by that call: when
\* the call came to the draw, every product whose weight the sampler asks for
\* is one the call gave the weight to, a product of OUTLET for the rank of
\* the sales of a new offer and a product of SIMILAR for the rank of the
\* distance of a continuing offer.
ScoresReadWereWritten ==
    (/\ ret.tpo # 0
     /\ DOMAIN products # {}
     /\ ret.status \in {"ASSIGNED", "UNASSIGNED", "NONE"}) =>
        LET newTPO == PrevProductID(tpoMap[ret.tpo]) = NoProduct
            outerSet == IF newTPO THEN "SIMILAR" ELSE "DISTANCE"
            weightVar == IF newTPO THEN "Sales" ELSE "normDistance"
            written == filterSets[IF newTPO THEN "OUTLET" ELSE "SIMILAR"]
        IN \A s \in sample(products, filterSets[outerSet], filterSets["OUTLET"],
                           [op |-> "variable", key |-> weightVar],
                           params.samplingStrategy, 1) :
               s.consulted \subseteq written

\* C29: in a run of substitute every offer of the cluster, none of which is
\* assigned when the run starts, is passed to assignTPO: when the loop takes
\* no further offer, because none is left or because the run has ended, every
\* offer has been visited.
EveryOfferPassed ==
    ~(ret.err = "none" /\ pending # {}) => pending = {}

====
